---- MODULE Spec2Model ----
(***************************************************************************)
(* Model of the pharmacy invoicing application (src/App.tsx and the        *)
(* DataManager forms of src/unnamed/part_003).                             *)
(*                                                                         *)
(* The state is the React state of App and of ProductAdder.  One action    *)
(* models one event handler together with the render it causes and the     *)
(* invoice derivation effect (App.tsx 142-152) that React runs after that  *)
(* render when one of its dependencies was set.  React flushes passive     *)
(* effects before it handles the next event, so no event observes the      *)
(* state between a handler and its effect.                                 *)
(*                                                                         *)
(* A handler is modelled with the checks its own code makes and with the    *)
(* arguments its callers can pass: a row handler acts on a line of the      *)
(* invoice, the adder offers the products that have no line, the selector  *)
(* offers "all" and the patients.  handleSaveInvoice checks the selection  *)
(* itself (App.tsx 196-199) and is modelled as callable in every state.    *)
(* Date.now() gives every added patient and product an id never used       *)
(* before.                                                                 *)
(*                                                                         *)
(* Numbers: prices and quantities are integers, a discount is a whole      *)
(* percentage, and a net amount is carried in hundredths (LineNet100).     *)
(* Names are sequences of characters so that trim() is computed.           *)
(* A text input of a number field is [isNum, val]: isNum = FALSE is a text *)
(* that parseInt/parseFloat turn into NaN.                                 *)
(*                                                                         *)
(* The PDF exporter (src/unnamed/part_000), the timeouts of the status     *)
(* messages and the reload of the page have state and steps of their own.  *)
(* They are explored in SpecExport, SpecStatus and SpecReload; in Spec and *)
(* SpecStored that state keeps its initial value.                          *)
(***************************************************************************)
EXTENDS Integers, Sequences, FiniteSets, TLC

VARIABLES
    patients,            \* App.patients: sequence of [id, name]
    products,            \* App.products: sequence of [id, name, price]
    patientMedications,  \* App.patientMedications: sequence of associations
    selectedPatientId,   \* App.selectedPatientId: "all" or a patient id
    invoiceItems,        \* App.invoiceItems: sequence of invoice lines
    newlyAddedDefaults,  \* App.newlyAddedDefaults: a Set, kept in insertion order
    statusMessage,       \* App.statusMessage: the type of the message shown, or NoMessage
    totals,              \* App.totals: the value useMemo holds, computed from invoiceItems
    adderSelected,       \* ProductAdder.selectedProductId ("" = nothing chosen)
    nextPatient,         \* number of patient ids issued so far (Date.now() is fresh)
    nextProduct,         \* number of product ids issued so far
    timers,              \* pending timeouts of showStatusMessage, oldest first
    shown,               \* number of messages shown so far
    amiriFontBinary,     \* pdfExporter's cache of the fetched font, or NoFont
    exports,             \* the calls of exportToPDF made so far, each with its position
    fontFetches          \* number of font fetches that have succeeded

\* State outside the App component: the timeouts and the PDF exporter
background == <<timers, shown, amiriFontBinary, exports, fontFetches>>

vars == <<patients, products, patientMedications, selectedPatientId, invoiceItems,
          newlyAddedDefaults, statusMessage, totals, adderSelected, nextPatient,
          nextProduct, timers, shown, amiriFontBinary, exports, fontFetches>>

----------------------------------------------------------------------------
(* Bounds of the model *)

MaxPatients == 2
MaxProducts == 2
MaxMeds == 2
MaxExports == 2
MaxMessages == 9

(* Inputs the user can type *)

\* Raw texts of a name field; patients and products get the trimmed text
RawNames == { <<"a", " ">>, <<" ">> }
NaN == [isNum |-> FALSE, val |-> 0]
Num(n) == [isNum |-> TRUE, val |-> n]
\* What is typed in the name and price fields of the form that adds a product
ProductInputs ==
    { [name |-> <<"a", " ">>, price |-> Num(10)],
      [name |-> <<" ">>, price |-> Num(10)],
      [name |-> <<"a">>, price |-> Num(0 - 1)],
      [name |-> <<"a">>, price |-> NaN] }
\* What is typed in the name and price fields of a product row being edited
ProductEdits ==
    { [name |-> <<"b">>, price |-> Num(50)],
      [name |-> <<" ">>, price |-> Num(50)],
      [name |-> <<"b">>, price |-> Num(0 - 1)],
      [name |-> <<"b">>, price |-> NaN] }
QuantityInputs == { Num(0 - 5), NaN }
DiscountInputs == { Num(150), Num(0 - 5), NaN }

----------------------------------------------------------------------------
(* Helpers over sequences: Array.prototype.filter / map / find *)

FilterSeq(s, Keep(_)) == SelectSeq(s, Keep)

MapSeq(s, F(_)) == [i \in 1..Len(s) |-> F(s[i])]

Range(s) == { s[i] : i \in 1..Len(s) }

PatientIds == { patients[i].id : i \in 1..Len(patients) }
ProductIds == { products[i].id : i \in 1..Len(products) }
LineIds == { invoiceItems[i].productId : i \in 1..Len(invoiceItems) }

\* products.find(p => p.id === id), for an id that is present
FindProduct(prods, id) ==
    prods[CHOOSE i \in 1..Len(prods) :
            /\ prods[i].id = id
            /\ \A j \in 1..(i - 1) : prods[j].id # id]

\* `p_${Date.now()}` and `prod_${Date.now()}`: the clock gives a fresh number
PatientIdOf(n) == "p_" \o ToString(n)
ProductIdOf(n) == "prod_" \o ToString(n)

\* String.prototype.trim on a sequence of characters
RECURSIVE TrimLeft(_)
TrimLeft(s) == IF s # <<>> /\ Head(s) = " " THEN TrimLeft(Tail(s)) ELSE s

RECURSIVE TrimRight(_)
TrimRight(s) ==
    IF s # <<>> /\ s[Len(s)] = " " THEN TrimRight(SubSeq(s, 1, Len(s) - 1)) ELSE s

Trim(s) == TrimRight(TrimLeft(s))

----------------------------------------------------------------------------
(* Invoice derivation effect, App.tsx 142-152 *)

NewLine(p, isNew) ==
    [productId |-> p.id, name |-> p.name, price |-> p.price,
     quantity |-> 1, discount |-> 0, isNew |-> isNew]

\* Variant: a line takes the quantity and discount its association stores
Derive_Saved(sel, prods, meds) ==
    IF sel = "all" THEN
        MapSeq(prods, LAMBDA p : NewLine(p, FALSE))
    ELSE IF sel # "" THEN
        LET mine == { j \in 1..Len(meds) : meds[j].patientId = sel }
            defaultProductIds == { meds[i].productId : i \in mine }
            saved(p) == meds[CHOOSE i \in mine : meds[i].productId = p.id]
            line(p) == IF "quantity" \in DOMAIN saved(p)
                       THEN [NewLine(p, FALSE) EXCEPT !.quantity = saved(p).quantity,
                                                      !.discount = saved(p).discount]
                       ELSE NewLine(p, FALSE)
        IN  MapSeq(FilterSeq(prods, LAMBDA p : p.id \in defaultProductIds), line)
    ELSE <<>>

\* Variant: with "all" selected only the products that some association
\* references are listed
Derive_AllFromMeds(sel, prods, meds) ==
    LET defaultProductIds ==
            { meds[i].productId :
                i \in { j \in 1..Len(meds) : sel = "all" \/ meds[j].patientId = sel } }
    IN  IF sel # ""
        THEN MapSeq(FilterSeq(prods, LAMBDA p : p.id \in defaultProductIds),
                    LAMBDA p : NewLine(p, FALSE))
        ELSE <<>>

\* Variant: one line per association of the patient, looked up in the catalog;
\* an association whose product is missing gives a line without name and price
Derive_PerAssociation(sel, prods, meds) ==
    IF sel = "all" THEN
        MapSeq(prods, LAMBDA p : NewLine(p, FALSE))
    ELSE IF sel # "" THEN
        MapSeq(FilterSeq(meds, LAMBDA pm : pm.patientId = sel),
               LAMBDA pm :
                  IF \E i \in 1..Len(prods) : prods[i].id = pm.productId
                  THEN NewLine(FindProduct(prods, pm.productId), FALSE)
                  ELSE NewLine([id |-> pm.productId, name |-> <<>>, price |-> 0], FALSE))
    ELSE <<>>

\* Variant: an unset selection is treated as "all"
Derive_UnsetAsAll(sel, prods, meds) ==
    IF sel = "all" \/ sel = "" THEN
        MapSeq(prods, LAMBDA p : NewLine(p, FALSE))
    ELSE
        LET defaultProductIds ==
                { meds[i].productId : i \in { j \in 1..Len(meds) : meds[j].patientId = sel } }
        IN  MapSeq(FilterSeq(prods, LAMBDA p : p.id \in defaultProductIds),
                   LAMBDA p : NewLine(p, FALSE))

Derive(sel, prods, meds) ==
    IF sel = "all" THEN
        MapSeq(prods, LAMBDA p : NewLine(p, FALSE))
    ELSE IF sel # "" THEN
        LET defaultProductIds ==
                { meds[i].productId : i \in { j \in 1..Len(meds) : meds[j].patientId = sel } }
        IN  MapSeq(FilterSeq(prods, LAMBDA p : p.id \in defaultProductIds),
                   LAMBDA p : NewLine(p, FALSE))
    ELSE <<>>

\* item.price * item.quantity * (1 - item.discount / 100), in hundredths
LineNet100(item) == item.price * item.quantity * (100 - item.discount)

\* useMemo of App.tsx 183-188: subtotal and grandTotal are the two reduces over
\* the lines, discount is their difference; the three amounts are in hundredths
RECURSIVE SumGross100(_)
SumGross100(items) ==
    IF items = <<>> THEN 0
    ELSE SumGross100(SubSeq(items, 1, Len(items) - 1))
         + 100 * items[Len(items)].price * items[Len(items)].quantity

RECURSIVE SumNet100(_)
SumNet100(items) ==
    IF items = <<>> THEN 0
    ELSE SumNet100(SubSeq(items, 1, Len(items) - 1)) + LineNet100(items[Len(items)])

TotalsOf(items) ==
    LET subtotal == SumGross100(items)
        grandTotal == SumNet100(items)
        discount == subtotal - grandTotal
    IN  [subtotal |-> subtotal, discount |-> discount, grandTotal |-> grandTotal]

\* The render that follows setInvoiceItems finds a new array as the dependency
\* of useMemo and computes the totals again
RenderTotals == totals' = TotalsOf(invoiceItems')

\* Variant: the effect does not run again, the invoice the handler has set
\* and the starred set stay
DerivationEffect_KeepRendered(rendered) ==
    /\ invoiceItems' = rendered
    /\ newlyAddedDefaults' = newlyAddedDefaults
    /\ RenderTotals

\* The effect runs after the render that follows a handler that set
\* selectedPatientId to another value, or products or patientMedications to
\* a new array; it replaces the invoice and clears the starred set.
\* rendered is the invoice the handler itself has set (App.tsx 257, 267): the
\* effect's setInvoiceItems(items) overwrites it.
DerivationEffect(rendered) ==
    /\ invoiceItems' = Derive(selectedPatientId', products', patientMedications')
    /\ newlyAddedDefaults' = <<>>
    /\ RenderTotals

\* ProductAdder is rendered only while selectedPatientId !== 'all'
\* (App.tsx 319); its state is lost when it is unmounted.
AdderAfterRender(sel, chosen) == IF sel = "all" THEN "" ELSE chosen

\* let amiriFontBinary: string | null = null (src/unnamed/part_000 13)
NoFont == "null"

\* showStatusMessage, App.tsx 190-193: the type of the message is kept, its
\* text is not; NoMessage is null
NoMessage == "none"
showStatusMessage(text, type) == statusMessage' = type

----------------------------------------------------------------------------
(* Initial state: the state after the first render and its effects *)

\* JSON.stringify of a list of objects: an object becomes its set of
\* key/value pairs; JSON.parse builds the objects again
JSONstringify(list) == MapSeq(list, LAMBDA r : { <<k, r[k]>> : k \in DOMAIN r })
JSONparse(text) ==
    MapSeq(text, LAMBDA o : [k \in { pr[1] : pr \in o } |->
                                 (CHOOSE pr \in o : pr[1] = k)[2]])

\* Variant: the stored value is not used
loadFromStorage_Fallback(saved, fallback) == fallback

\* getItem gives null for a missing key, and JSON.parse throws on a text
\* that is not JSON: both give the fallback
loadFromStorage(saved, fallback) ==
    IF saved.kind = "json" THEN JSONparse(saved.value) ELSE fallback

\* What localStorage holds under a key: nothing, the JSON text of a list, or
\* a text that is not JSON
Missing == [kind |-> "missing", value |-> <<>>]
Json(v) == [kind |-> "json", value |-> JSONstringify(v)]
Unparseable == [kind |-> "unparseable", value |-> <<>>]

EmptyStore == [patients |-> Missing, products |-> Missing, meds |-> Missing]

InitFrom(store) ==
    /\ patients = loadFromStorage(store.patients, <<>>)
    /\ products = loadFromStorage(store.products, <<>>)
    /\ patientMedications = loadFromStorage(store.meds, <<>>)
    /\ selectedPatientId = "all"
    /\ invoiceItems = Derive("all", products, patientMedications)
    /\ newlyAddedDefaults = <<>>
    /\ totals = TotalsOf(invoiceItems)
    /\ statusMessage = NoMessage
    /\ adderSelected = ""
    /\ nextPatient = Len(patients)
    /\ nextProduct = Len(products)
    /\ timers = <<>>
    /\ shown = 0
    /\ amiriFontBinary = NoFont
    /\ exports = <<>>
    /\ fontFetches = 0

Init == InitFrom(EmptyStore)

\* A store written by the revision of the application whose PatientMedication
\* carries quantity and discount (src/unnamed/part_001 47-52), under the same keys
StoredDefaults ==
    [patients |-> Json(<< [id |-> PatientIdOf(1), name |-> <<"a">>] >>),
     products |-> Json(<< [id |-> ProductIdOf(1), name |-> <<"b">>, price |-> 50] >>),
     meds |-> Json(<< [patientId |-> PatientIdOf(1), productId |-> ProductIdOf(1),
                       quantity |-> 3, discount |-> 10] >>)]

\* A store is read without any check (App.tsx 16-24).  This one holds two
\* products and, for its patient, an association with one of them and an
\* association with a product id that is not in the catalog
StoredDangling ==
    [patients |-> Json(<< [id |-> PatientIdOf(1), name |-> <<"a">>] >>),
     products |-> Json(<< [id |-> ProductIdOf(1), name |-> <<"a">>, price |-> 10],
                          [id |-> ProductIdOf(2), name |-> <<"a">>, price |-> 20] >>),
     meds |-> Json(<< [patientId |-> PatientIdOf(1), productId |-> ProductIdOf(0)],
                      [patientId |-> PatientIdOf(1), productId |-> ProductIdOf(1)] >>)]

StoredStores == { StoredDefaults, StoredDangling }

InitStored == \E store \in StoredStores : InitFrom(store)

\* What a key holds when the page is loaded again: the text the persistence
\* effect (App.tsx 129-139) wrote after the last change of the collection,
\* nothing, or a text that is not JSON
KeyStates == { "written", "missing", "unparseable" }
Stored(keyState, collection) ==
    IF keyState = "written" THEN Json(collection)
    ELSE IF keyState = "missing" THEN Missing
    ELSE Unparseable

\* The page is loaded again: App is mounted from the store, with the state
\* of a first render; timeouts and the font cache of the old page are gone.
\* The clock that gives the ids goes on.
Reload(keys) ==
    LET store == [patients |-> Stored(keys.patients, patients),
                  products |-> Stored(keys.products, products),
                  meds |-> Stored(keys.meds, patientMedications)]
    IN  /\ patients' = loadFromStorage(store.patients, <<>>)
        /\ products' = loadFromStorage(store.products, <<>>)
        /\ patientMedications' = loadFromStorage(store.meds, <<>>)
        /\ selectedPatientId' = "all"
        /\ DerivationEffect(<<>>)
        /\ statusMessage' = NoMessage
        /\ adderSelected' = ""
        /\ timers' = <<>>
        /\ shown' = 0
        /\ amiriFontBinary' = NoFont
        /\ exports' = <<>>
        /\ fontFetches' = 0
        /\ UNCHANGED <<nextPatient, nextProduct>>

----------------------------------------------------------------------------
(* Patient selector, App.tsx 286-289 *)

\* Variant: the effect does not depend on selectedPatientId, the invoice stays
SelectPatient_KeepInvoice(id) ==
    /\ id \in {"all"} \cup PatientIds
    /\ id # selectedPatientId
    /\ selectedPatientId' = id
    /\ adderSelected' = AdderAfterRender(id, adderSelected)
    /\ UNCHANGED <<patients, products, patientMedications, statusMessage,
                   nextPatient, nextProduct, invoiceItems, totals, newlyAddedDefaults,
                   background>>

SelectPatient(id) ==
    /\ id \in {"all"} \cup PatientIds
    /\ id # selectedPatientId
    /\ selectedPatientId' = id
    /\ UNCHANGED <<patients, products, patientMedications, statusMessage,
                   nextPatient, nextProduct,
                   background>>
    /\ DerivationEffect(invoiceItems)
    /\ adderSelected' = AdderAfterRender(id, adderSelected)

----------------------------------------------------------------------------
(* Invoice editor, App.tsx 36-45 and 154-181 *)

\* parseInt(e.target.value, 10) || 0
ParseQuantity(input) == IF input.isNum /\ input.val # 0 THEN input.val ELSE 0

\* Math.max(0, Math.min(100, parseFloat(e.target.value) || 0))
Min(a, b) == IF a < b THEN a ELSE b
Max(a, b) == IF a > b THEN a ELSE b
\* Variant: parseFloat(e.target.value) || 0 without the clamp
ParseDiscount_NoClamp(input) == IF input.isNum /\ input.val # 0 THEN input.val ELSE 0

ParseDiscount(input) ==
    LET discount == IF input.isNum /\ input.val # 0 THEN input.val ELSE 0
    IN  Max(0, Min(100, discount))

\* The updater of handleUpdateItem, App.tsx 155
\* Variant: an item that replaces no line is appended
UpdatedItems_Upsert(currentItems, updatedItem) ==
    IF \E k \in 1..Len(currentItems) : currentItems[k].productId = updatedItem.productId
    THEN MapSeq(currentItems,
                LAMBDA item : IF item.productId = updatedItem.productId
                              THEN updatedItem ELSE item)
    ELSE Append(currentItems, updatedItem)

UpdatedItems(currentItems, updatedItem) ==
    MapSeq(currentItems,
           LAMBDA item : IF item.productId = updatedItem.productId
                         THEN updatedItem ELSE item)

\* Variant: the totals are not computed again after the update of a line
handleUpdateItem_StaleTotals(updatedItem) ==
    /\ invoiceItems' = UpdatedItems(invoiceItems, updatedItem)
    /\ UNCHANGED <<patients, products, patientMedications, selectedPatientId,
                   newlyAddedDefaults, statusMessage, totals, adderSelected,
                   nextPatient, nextProduct,
                   background>>

handleUpdateItem(updatedItem) ==
    /\ invoiceItems' = UpdatedItems(invoiceItems, updatedItem)
    /\ RenderTotals
    /\ UNCHANGED <<patients, products, patientMedications, selectedPatientId,
                   newlyAddedDefaults, statusMessage, adderSelected,
                   nextPatient, nextProduct,
                   background>>

\* InvoiceRow of line i: the quantity field is edited
handleQuantityChange(i, input) ==
    /\ i \in 1..Len(invoiceItems)
    /\ handleUpdateItem([invoiceItems[i] EXCEPT !.quantity = ParseQuantity(input)])

\* InvoiceRow of line i: the discount field is edited
handleDiscountChange(i, input) ==
    /\ i \in 1..Len(invoiceItems)
    /\ handleUpdateItem([invoiceItems[i] EXCEPT !.discount = ParseDiscount(input)])

\* The updater of handleRemoveItem, App.tsx 159
\* Variant: the test of the filter is inverted
RemainingItems_Inverted(currentItems, productId) ==
    FilterSeq(currentItems, LAMBDA item : item.productId = productId)

RemainingItems(currentItems, productId) ==
    FilterSeq(currentItems, LAMBDA item : item.productId # productId)

\* Variant: removing a line also removes the association of the selected
\* patient with the product
handleRemoveItem_Unassign(productId) ==
    /\ productId \in LineIds
    /\ invoiceItems' = RemainingItems(invoiceItems, productId)
    /\ RenderTotals
    /\ newlyAddedDefaults' = FilterSeq(newlyAddedDefaults, LAMBDA d : d # productId)
    /\ patientMedications' = FilterSeq(patientMedications, LAMBDA pm :
            ~(pm.patientId = selectedPatientId /\ pm.productId = productId))
    /\ UNCHANGED <<patients, products, selectedPatientId,
                   statusMessage, adderSelected, nextPatient, nextProduct,
                   background>>

handleRemoveItem(productId) ==
    /\ productId \in LineIds
    /\ invoiceItems' = RemainingItems(invoiceItems, productId)
    /\ RenderTotals
    /\ newlyAddedDefaults' = FilterSeq(newlyAddedDefaults, LAMBDA d : d # productId)
    /\ UNCHANGED <<patients, products, patientMedications, selectedPatientId,
                   statusMessage, adderSelected, nextPatient, nextProduct,
                   background>>

handleAddItem(product) ==
    /\ invoiceItems' = Append(invoiceItems, NewLine(product, TRUE))
    /\ RenderTotals
    /\ UNCHANGED <<patients, products, patientMedications, selectedPatientId,
                   newlyAddedDefaults, statusMessage, nextPatient, nextProduct,
                   background>>

\* The star button exists on the rows with isNew (App.tsx 65-69)
handleToggleDefault(productId) ==
    /\ \E i \in 1..Len(invoiceItems) :
            invoiceItems[i].productId = productId /\ invoiceItems[i].isNew
    /\ newlyAddedDefaults' =
            IF productId \in Range(newlyAddedDefaults)
            THEN FilterSeq(newlyAddedDefaults, LAMBDA d : d # productId)
            ELSE Append(newlyAddedDefaults, productId)
    /\ UNCHANGED <<patients, products, patientMedications, selectedPatientId,
                   invoiceItems, totals, statusMessage, adderSelected,
                   nextPatient, nextProduct,
                   background>>

----------------------------------------------------------------------------
(* ProductAdder, App.tsx 86-113 *)

\* products.filter(p => !existingIds.has(p.id)): the options of the dropdown
availableProducts == ProductIds \ LineIds

\* onChange of the dropdown: one of the options, or the placeholder ""
AdderSelect(id) ==
    /\ selectedPatientId # "all"
    /\ id \in availableProducts \cup {""}
    /\ id # adderSelected
    /\ adderSelected' = id
    /\ UNCHANGED <<patients, products, patientMedications, selectedPatientId,
                   invoiceItems, totals, newlyAddedDefaults, statusMessage,
                   nextPatient, nextProduct,
                   background>>

\* handleAdd, App.tsx 90-97
AdderAdd ==
    /\ selectedPatientId # "all"
    /\ adderSelected # ""
    /\ IF adderSelected \in ProductIds
       THEN /\ handleAddItem(FindProduct(products, adderSelected))
            /\ adderSelected' = ""
       ELSE UNCHANGED vars

----------------------------------------------------------------------------
(* Save-back, App.tsx 195-209 *)

SaveRejected ==
    /\ showStatusMessage("selectPatientToSave", "error")
    /\ UNCHANGED <<patients, products, patientMedications, selectedPatientId,
                   invoiceItems, totals, newlyAddedDefaults, adderSelected,
                   nextPatient, nextProduct,
                   background>>

\* Variant: replace the patient's associations by one per invoice line
handleSaveInvoice_Replace ==
    IF selectedPatientId = "" \/ selectedPatientId = "all" THEN SaveRejected
    ELSE
        /\ patientMedications' =
                FilterSeq(patientMedications, LAMBDA pm : pm.patientId # selectedPatientId)
                \o MapSeq(invoiceItems, LAMBDA item :
                        [patientId |-> selectedPatientId, productId |-> item.productId,
                         quantity |-> item.quantity, discount |-> item.discount])
        /\ showStatusMessage("defaultsUpdated", "success")
        /\ selectedPatientId' = "all"
        /\ UNCHANGED <<patients, products, nextPatient, nextProduct,
                   background>>
        /\ DerivationEffect(invoiceItems)
        /\ adderSelected' = AdderAfterRender("all", adderSelected)

\* Variant: setPatientMedications(newMeds) instead of the functional update
handleSaveInvoice_Overwrite ==
    IF selectedPatientId = "" \/ selectedPatientId = "all" THEN SaveRejected
    ELSE
        /\ IF Len(newlyAddedDefaults) > 0
           THEN /\ patientMedications' = MapSeq(newlyAddedDefaults,
                        LAMBDA productId : [patientId |-> selectedPatientId,
                                            productId |-> productId])
                /\ showStatusMessage("defaultsUpdated", "success")
           ELSE /\ patientMedications' = patientMedications
                /\ showStatusMessage("savedNoChange", "success")
        /\ selectedPatientId' = "all"
        /\ UNCHANGED <<patients, products, nextPatient, nextProduct,
                   background>>
        /\ DerivationEffect(invoiceItems)
        /\ adderSelected' = AdderAfterRender("all", adderSelected)

\* Variant: the check of the selection (App.tsx 196-199) is missing
handleSaveInvoice_NoGuard ==
    /\ Len(patientMedications) + Len(newlyAddedDefaults) <= MaxMeds
    /\ IF Len(newlyAddedDefaults) > 0
       THEN /\ patientMedications' = patientMedications \o MapSeq(newlyAddedDefaults,
                    LAMBDA productId : [patientId |-> selectedPatientId,
                                        productId |-> productId])
            /\ showStatusMessage("defaultsUpdated", "success")
       ELSE /\ patientMedications' = patientMedications
            /\ showStatusMessage("savedNoChange", "success")
    /\ selectedPatientId' = "all"
    /\ UNCHANGED <<patients, products, nextPatient, nextProduct,
                   background>>
    /\ DerivationEffect(invoiceItems)
    /\ adderSelected' = AdderAfterRender("all", adderSelected)

\* Variant: the save-back leaves the patient selected
handleSaveInvoice_StaySelected ==
    IF selectedPatientId = "" \/ selectedPatientId = "all" THEN SaveRejected
    ELSE
        /\ Len(patientMedications) + Len(newlyAddedDefaults) <= MaxMeds
        /\ IF Len(newlyAddedDefaults) > 0
           THEN LET newMeds == MapSeq(newlyAddedDefaults,
                        LAMBDA productId : [patientId |-> selectedPatientId,
                                            productId |-> productId])
                IN  /\ patientMedications' = patientMedications \o newMeds
                    /\ showStatusMessage("defaultsUpdated", "success")
           ELSE /\ patientMedications' = patientMedications
                /\ showStatusMessage("savedNoChange", "success")
        /\ selectedPatientId' = selectedPatientId
        /\ UNCHANGED <<patients, products, nextPatient, nextProduct,
                   background>>
        /\ DerivationEffect(invoiceItems)
        /\ adderSelected' = AdderAfterRender(selectedPatientId, adderSelected)

handleSaveInvoice ==
    IF selectedPatientId = "" \/ selectedPatientId = "all" THEN SaveRejected
    ELSE
        /\ Len(patientMedications) + Len(newlyAddedDefaults) <= MaxMeds
        /\ IF Len(newlyAddedDefaults) > 0
           THEN LET newMeds == MapSeq(newlyAddedDefaults,
                        LAMBDA productId : [patientId |-> selectedPatientId,
                                            productId |-> productId])
                IN  /\ patientMedications' = patientMedications \o newMeds
                    /\ showStatusMessage("defaultsUpdated", "success")
           ELSE /\ patientMedications' = patientMedications
                /\ showStatusMessage("savedNoChange", "success")
        /\ selectedPatientId' = "all"
        /\ UNCHANGED <<patients, products, nextPatient, nextProduct,
                   background>>
        /\ DerivationEffect(invoiceItems)
        /\ adderSelected' = AdderAfterRender("all", adderSelected)

----------------------------------------------------------------------------
(* Export, App.tsx 211-215 *)

\* What handleExportPDF hands to exportToPDF: the selected patient or null,
\* the lines and the memoized totals of the same render
ExportArguments ==
    [patient |-> IF selectedPatientId \in PatientIds THEN selectedPatientId ELSE "null",
     items |-> invoiceItems,
     totals |-> totals]

\* exportToPDF up to its first await (src/unnamed/part_000 48-57, 28-34):
\* getAmiriFont returns the cached font or starts the fetch
exportToPDF(args) ==
    /\ exports' = Append(exports,
            [pc |-> IF amiriFontBinary # NoFont THEN "font" ELSE "fetching",
             args |-> args, alerts |-> 0, files |-> 0])
    /\ UNCHANGED <<amiriFontBinary, fontFetches>>

\* The handler returns at once on an empty invoice; the call of exportToPDF
\* is not awaited and the handler sets no state of App
handleExportPDF ==
    /\ Len(exports) < MaxExports
    /\ Len(invoiceItems) # 0
    /\ exportToPDF(ExportArguments)
    /\ UNCHANGED <<patients, products, patientMedications, selectedPatientId,
                   invoiceItems, newlyAddedDefaults, statusMessage, totals,
                   adderSelected, nextPatient, nextProduct, timers, shown>>

\* What becomes of the fetch an export waits for
FetchOutcomes == { "ok", "notOk", "rejected" }

\* The catch block of exportToPDF (part_000 125-128): one alert, no doc.save
\* Variant: the catch block only logs the error
ExportFailed_Silent(e) ==
    exports' = [exports EXCEPT ![e].pc = "failed"]

ExportFailed(e) ==
    exports' = [exports EXCEPT ![e].pc = "failed", ![e].alerts = @ + 1]

\* getAmiriFont after its fetch (part_000 34-44): a response that is not ok
\* or a rejected promise throws into the catch block of the export; otherwise
\* the font is cached and returned
FontFetchCompletes(e, outcome) ==
    /\ e \in 1..Len(exports)
    /\ exports[e].pc = "fetching"
    /\ IF outcome = "ok"
       THEN /\ amiriFontBinary' = "font"
            /\ fontFetches' = fontFetches + 1
            /\ exports' = [exports EXCEPT ![e].pc = "font"]
       ELSE /\ ExportFailed(e)
            /\ UNCHANGED <<amiriFontBinary, fontFetches>>
    /\ UNCHANGED <<patients, products, patientMedications, selectedPatientId,
                   invoiceItems, newlyAddedDefaults, statusMessage, totals,
                   adderSelected, nextPatient, nextProduct, timers, shown>>

\* exportToPDF after the font has arrived (part_000 59-124): the document is
\* rendered and doc.save is its last statement; a step that throws goes to
\* the catch block
ExportRenders(e, rendered) ==
    /\ e \in 1..Len(exports)
    /\ exports[e].pc = "font"
    /\ IF rendered
       THEN exports' = [exports EXCEPT ![e].pc = "saved", ![e].files = @ + 1]
       ELSE ExportFailed(e)
    /\ UNCHANGED <<patients, products, patientMedications, selectedPatientId,
                   invoiceItems, newlyAddedDefaults, statusMessage, totals,
                   adderSelected, nextPatient, nextProduct, timers, shown,
                   amiriFontBinary, fontFetches>>

----------------------------------------------------------------------------
(* Patients, App.tsx 219-242 and the forms of DataManager *)

handleAddPatient(name) ==
    /\ nextPatient < MaxPatients
    /\ nextPatient' = nextPatient + 1
    /\ patients' = Append(patients, [id |-> PatientIdOf(nextPatient'), name |-> name])
    /\ showStatusMessage("patientAdded", "success")
    /\ UNCHANGED <<products, patientMedications, selectedPatientId, invoiceItems,
                   totals, newlyAddedDefaults, adderSelected, nextProduct,
                   background>>

\* PatientForm.handleSubmit
PatientFormSubmit(name) ==
    IF Trim(name) # <<>> THEN handleAddPatient(Trim(name)) ELSE UNCHANGED vars

handleUpdatePatient(id, name) ==
    /\ patients' = MapSeq(patients, LAMBDA p : IF p.id = id THEN [p EXCEPT !.name = name] ELSE p)
    /\ showStatusMessage("patientUpdated", "success")
    /\ UNCHANGED <<products, patientMedications, selectedPatientId, invoiceItems,
                   totals, newlyAddedDefaults, adderSelected, nextPatient, nextProduct,
                   background>>

\* DataManager.handlePatientSave: the row of patient id is being edited
handlePatientSave(id, name) ==
    /\ id \in PatientIds
    /\ IF Trim(name) # <<>> THEN handleUpdatePatient(id, Trim(name)) ELSE UNCHANGED vars

\* Variant: the associations of the patient are not removed
handleDeletePatient_NoCascade(id, confirmed) ==
    /\ id \in PatientIds
    /\ IF confirmed THEN
          /\ patients' = FilterSeq(patients, LAMBDA p : p.id # id)
          /\ patientMedications' = patientMedications
          /\ selectedPatientId' = IF selectedPatientId = id THEN "all" ELSE selectedPatientId
          /\ showStatusMessage("patientDeleted", "success")
          /\ UNCHANGED <<products, nextPatient, nextProduct,
                   background>>
          /\ DerivationEffect(invoiceItems)
          /\ adderSelected' = AdderAfterRender(selectedPatientId', adderSelected)
       ELSE UNCHANGED vars

\* Variant: the deletion of a patient leaves its associations in place
handleDeletePatient_KeepMeds(id, confirmed) ==
    /\ id \in PatientIds
    /\ IF confirmed THEN
          /\ patients' = FilterSeq(patients, LAMBDA p : p.id # id)
          /\ patientMedications' = patientMedications
          /\ selectedPatientId' = IF selectedPatientId = id THEN "all" ELSE selectedPatientId
          /\ showStatusMessage("patientDeleted", "success")
          /\ UNCHANGED <<products, nextPatient, nextProduct,
                   background>>
          /\ DerivationEffect(invoiceItems)
          /\ adderSelected' = AdderAfterRender(selectedPatientId', adderSelected)
       ELSE UNCHANGED vars

\* Variant: the patient is deleted whatever window.confirm returns
handleDeletePatient_Unconfirmed(id, confirmed) ==
    /\ id \in PatientIds
    /\ patients' = FilterSeq(patients, LAMBDA p : p.id # id)
    /\ patientMedications' = FilterSeq(patientMedications, LAMBDA pm : pm.patientId # id)
    /\ selectedPatientId' = IF selectedPatientId = id THEN "all" ELSE selectedPatientId
    /\ showStatusMessage("patientDeleted", "success")
    /\ UNCHANGED <<products, nextPatient, nextProduct, background>>
    /\ DerivationEffect(invoiceItems)
    /\ adderSelected' = AdderAfterRender(selectedPatientId', adderSelected)

handleDeletePatient(id, confirmed) ==
    /\ id \in PatientIds
    /\ IF confirmed THEN
          /\ patients' = FilterSeq(patients, LAMBDA p : p.id # id)
          /\ patientMedications' = FilterSeq(patientMedications, LAMBDA pm : pm.patientId # id)
          /\ selectedPatientId' = IF selectedPatientId = id THEN "all" ELSE selectedPatientId
          /\ showStatusMessage("patientDeleted", "success")
          /\ UNCHANGED <<products, nextPatient, nextProduct,
                   background>>
          /\ DerivationEffect(invoiceItems)
          /\ adderSelected' = AdderAfterRender(selectedPatientId', adderSelected)
       ELSE UNCHANGED vars

----------------------------------------------------------------------------
(* Products, App.tsx 244-270 and the forms of DataManager *)

handleAddProduct(name, price) ==
    /\ nextProduct < MaxProducts
    /\ nextProduct' = nextProduct + 1
    /\ products' = Append(products,
            [id |-> ProductIdOf(nextProduct'), name |-> name, price |-> price])
    /\ showStatusMessage("productAdded", "success")
    /\ UNCHANGED <<patients, patientMedications, selectedPatientId, adderSelected,
                   nextPatient,
                   background>>
    /\ DerivationEffect(invoiceItems)

\* !isNaN(priceValue) && priceValue >= 0
\* Variant: !isNaN(priceValue) without the test of the sign
ValidPrice_AnyNumber(input) == input.isNum

ValidPrice(input) == input.isNum /\ input.val >= 0

\* ProductForm.handleSubmit
ProductFormSubmit(name, price) ==
    IF Trim(name) # <<>> /\ ValidPrice(price)
    THEN handleAddProduct(Trim(name), price.val)
    ELSE UNCHANGED vars

\* setInvoiceItems of handleUpdateProduct, App.tsx 257-259
SyncLines(items, id, name, price) ==
    MapSeq(items, LAMBDA item :
        IF item.productId = id THEN [item EXCEPT !.name = name, !.price = price] ELSE item)

\* Variant: the open invoice keeps its snapshot of the product
handleUpdateProduct_Snapshot(id, name, price) ==
    /\ products' = MapSeq(products, LAMBDA p :
            IF p.id = id THEN [p EXCEPT !.name = name, !.price = price] ELSE p)
    /\ showStatusMessage("productUpdated", "success")
    /\ UNCHANGED <<patients, patientMedications, selectedPatientId, adderSelected,
                   nextPatient, nextProduct, invoiceItems, totals, newlyAddedDefaults,
                   background>>

\* The handler sets products and invoiceItems; products is a new array, so
\* the derivation effect then replaces the invoice the handler has set.
handleUpdateProduct(id, name, price) ==
    /\ products' = MapSeq(products, LAMBDA p :
            IF p.id = id THEN [p EXCEPT !.name = name, !.price = price] ELSE p)
    /\ showStatusMessage("productUpdated", "success")
    /\ UNCHANGED <<patients, patientMedications, selectedPatientId, adderSelected,
                   nextPatient, nextProduct,
                   background>>
    /\ DerivationEffect(SyncLines(invoiceItems, id, name, price))

\* DataManager.handleProductSave: the row of product id is being edited
handleProductSave(id, name, price) ==
    /\ id \in ProductIds
    /\ IF Trim(name) # <<>> /\ ValidPrice(price)
       THEN handleUpdateProduct(id, Trim(name), price.val)
       ELSE UNCHANGED vars

\* Variant: the associations with the product are not removed
handleDeleteProduct_NoCascade(id, confirmed) ==
    /\ id \in ProductIds
    /\ IF confirmed THEN
          /\ products' = FilterSeq(products, LAMBDA p : p.id # id)
          /\ patientMedications' = patientMedications
          /\ showStatusMessage("productDeleted", "success")
          /\ UNCHANGED <<patients, selectedPatientId, adderSelected,
                         nextPatient, nextProduct,
                   background>>
          /\ DerivationEffect(FilterSeq(invoiceItems, LAMBDA item : item.productId # id))
       ELSE UNCHANGED vars

handleDeleteProduct(id, confirmed) ==
    /\ id \in ProductIds
    /\ IF confirmed THEN
          /\ products' = FilterSeq(products, LAMBDA p : p.id # id)
          /\ patientMedications' = FilterSeq(patientMedications, LAMBDA pm : pm.productId # id)
          /\ showStatusMessage("productDeleted", "success")
          /\ UNCHANGED <<patients, selectedPatientId, adderSelected,
                         nextPatient, nextProduct,
                   background>>
          /\ DerivationEffect(FilterSeq(invoiceItems, LAMBDA item : item.productId # id))
       ELSE UNCHANGED vars

----------------------------------------------------------------------------

AllPatientIds == { PatientIdOf(n) : n \in 1..MaxPatients }
AllProductIds == { ProductIdOf(n) : n \in 1..MaxProducts }

Next ==
    \/ \E id \in {"all"} \cup AllPatientIds : SelectPatient(id)
    \/ \E i \in 1..Len(invoiceItems), input \in QuantityInputs : handleQuantityChange(i, input)
    \/ \E i \in 1..Len(invoiceItems), input \in DiscountInputs : handleDiscountChange(i, input)
    \/ \E id \in AllProductIds : handleRemoveItem(id)
    \/ \E id \in AllProductIds : handleToggleDefault(id)
    \/ \E id \in AllProductIds \cup {""} : AdderSelect(id)
    \/ AdderAdd
    \/ handleSaveInvoice
    \/ \E name \in RawNames : PatientFormSubmit(name)
    \/ \E id \in AllPatientIds, name \in RawNames : handlePatientSave(id, name)
    \/ \E id \in AllPatientIds, confirmed \in BOOLEAN : handleDeletePatient(id, confirmed)
    \/ \E in \in ProductInputs : ProductFormSubmit(in.name, in.price)
    \/ \E id \in AllProductIds, in \in ProductEdits :
            handleProductSave(id, in.name, in.price)
    \/ \E id \in AllProductIds, confirmed \in BOOLEAN : handleDeleteProduct(id, confirmed)

Spec == Init /\ [][Next]_vars

SpecStored == InitStored /\ [][Next]_vars

\* Reloads of the page next to the handlers that write the three stored
\* collections and the handlers a save-back needs.  The edits of a quantity
\* or a discount and the removal of a line set only the invoice, which is
\* not stored.
NextReload ==
    \/ \E id \in {"all"} \cup AllPatientIds : SelectPatient(id)
    \/ \E id \in AllProductIds : handleToggleDefault(id)
    \/ \E id \in AllProductIds \cup {""} : AdderSelect(id)
    \/ AdderAdd
    \/ handleSaveInvoice
    \/ \E name \in RawNames : PatientFormSubmit(name)
    \/ \E id \in AllPatientIds, confirmed \in BOOLEAN : handleDeletePatient(id, confirmed)
    \/ \E in \in ProductInputs : ProductFormSubmit(in.name, in.price)
    \/ \E id \in AllProductIds, in \in ProductEdits :
            handleProductSave(id, in.name, in.price)
    \/ \E id \in AllProductIds, confirmed \in BOOLEAN : handleDeleteProduct(id, confirmed)
    \/ \E keys \in [patients : KeyStates, products : KeyStates, meds : KeyStates] :
            Reload(keys)

SpecReload == Init /\ [][NextReload]_vars

\* The PDF exporter next to the handlers that fill and change the invoice.
\* An export sets no state of App and no handler of App sets the state of
\* the exporter, so the exporter is explored apart from the other handlers.
NextExport ==
    \/ handleExportPDF
    \/ \E e \in 1..MaxExports, outcome \in FetchOutcomes : FontFetchCompletes(e, outcome)
    \/ \E e \in 1..MaxExports, rendered \in BOOLEAN : ExportRenders(e, rendered)
    \/ \E in \in ProductInputs : ProductFormSubmit(in.name, in.price)
    \/ \E i \in 1..Len(invoiceItems), input \in DiscountInputs : handleDiscountChange(i, input)

SpecExport == Init /\ [][NextExport]_vars

\* The messages and their timeouts.  showStatusMessage (App.tsx 190-193) sets
\* the message and starts a timeout of 4000 ms that nothing cancels; the
\* timeout is numbered after the message it was started for.
StatusTypes == { "success", "error" }
StatusShown(type) ==
    /\ shown < MaxMessages
    /\ showStatusMessage("text", type)
    /\ timers' = Append(timers, shown + 1)
    /\ shown' = shown + 1
    /\ UNCHANGED <<patients, products, patientMedications, selectedPatientId,
                   invoiceItems, newlyAddedDefaults, totals, adderSelected,
                   nextPatient, nextProduct, amiriFontBinary, exports,
                   fontFetches>>

\* The callback of the oldest pending timeout: setStatusMessage(null).
\* The timeouts have the same delay, so they fire in the order they were
\* started.
TimerFires ==
    /\ timers # <<>>
    /\ statusMessage' = NoMessage
    /\ timers' = Tail(timers)
    /\ UNCHANGED <<patients, products, patientMedications, selectedPatientId,
                   invoiceItems, newlyAddedDefaults, totals, adderSelected,
                   nextPatient, nextProduct, shown, amiriFontBinary, exports,
                   fontFetches>>

NextStatus ==
    \/ \E type \in StatusTypes : StatusShown(type)
    \/ TimerFires

SpecStatus == Init /\ [][NextStatus]_vars

----------------------------------------------------------------------------
(* Vocabulary of the properties *)

ConcretePatient(sel) == sel # "all" /\ sel # ""

\* Positions of the associations of patient p in meds
MedsOf(meds, p) == { i \in 1..Len(meds) : meds[i].patientId = p }

\* The association stores a quantity and a discount
HasSaved(m) == "quantity" \in DOMAIN m /\ "discount" \in DOMAIN m

\* A save-back step with a concrete patient selected
SaveStep == handleSaveInvoice /\ ConcretePatient(selectedPatientId)

\* A step in which the derivation ran for a concrete selection
DerivedForPatient ==
    /\ ConcretePatient(selectedPatientId')
    /\ \/ selectedPatientId' # selectedPatientId
       \/ products' # products
       \/ patientMedications' # patientMedications

ProductIssued(id) == \E n \in 1..nextProduct : id = ProductIdOf(n)
PatientIssued(id) == \E n \in 1..nextPatient : id = PatientIdOf(n)

\* Some product, association or invoice line carries the product id
ProductReferenced(id) ==
    \/ id \in ProductIds
    \/ \E i \in 1..Len(patientMedications) : patientMedications[i].productId = id
    \/ id \in LineIds

----------------------------------------------------------------------------
(* C1 *)

----------------------------------------------------------------------------
(* C2 *)

----------------------------------------------------------------------------
(* C3 *)

\* C3: the working invoice never holds two lines with the same productId.
C3_NoDuplicateLines ==
    \A i, j \in 1..Len(invoiceItems) :
        i # j => invoiceItems[i].productId # invoiceItems[j].productId

----------------------------------------------------------------------------
(* C4 *)

\* C4: adding a product through the adder appends a line with quantity 1 and
\* discount 0 when the product has no line, changes nothing when it has one,
\* and in both cases leaves exactly one line for the product.
C4_AddItemOncePerProduct ==
    [][(AdderAdd /\ adderSelected \in ProductIds) =>
        /\ IF adderSelected \in LineIds
           THEN invoiceItems' = invoiceItems
           ELSE /\ Len(invoiceItems') = Len(invoiceItems) + 1
                /\ SubSeq(invoiceItems', 1, Len(invoiceItems)) = invoiceItems
                /\ invoiceItems'[Len(invoiceItems')].productId = adderSelected
                /\ invoiceItems'[Len(invoiceItems')].quantity = 1
                /\ invoiceItems'[Len(invoiceItems')].discount = 0
        /\ Cardinality({ k \in 1..Len(invoiceItems') :
                            invoiceItems'[k].productId = adderSelected }) = 1
    ]_vars

----------------------------------------------------------------------------
(* C5 *)

\* C5: a confirmed deleteProduct(id) leaves no product, association or invoice
\* line with that id, and an id that was issued and is no longer referenced is
\* never referenced again, whatever is selected, added or saved afterwards.
C5_DeletedProductStaysGone ==
    [][\A id \in AllProductIds :
            /\ handleDeleteProduct(id, TRUE) => ~ProductReferenced(id)'
            /\ (ProductIssued(id) /\ ~ProductReferenced(id)) => ~ProductReferenced(id)'
    ]_vars

\* A product was deleted while it was the choice of the adder, and the adder
\* still holds its id with a patient selected
C5_Witness ==
    \E id \in AllProductIds :
        /\ ProductIssued(id)
        /\ ~ProductReferenced(id)
        /\ adderSelected = id
        /\ ConcretePatient(selectedPatientId)

----------------------------------------------------------------------------
(* C6 *)

\* C6: a confirmed deletePatient(id) removes the patient and every
\* association of that patient; the selection becomes "all" when id was
\* selected and is unchanged otherwise.
C6_DeletePatientCascades ==
    [][\A id \in AllPatientIds :
            handleDeletePatient(id, TRUE) =>
                /\ id \notin PatientIds'
                /\ MedsOf(patientMedications', id) = {}
                /\ selectedPatientId = id => selectedPatientId' = "all"
                /\ selectedPatientId # id => selectedPatientId' = selectedPatientId
    ]_vars

\* A patient has been deleted while another patient, who keeps an
\* association, is selected
C6_Witness ==
    /\ selectedPatientId \in PatientIds
    /\ MedsOf(patientMedications, selectedPatientId) # {}
    /\ \E id \in AllPatientIds : PatientIssued(id) /\ id \notin PatientIds

----------------------------------------------------------------------------
(* C7 *)

\* The invoice is an unedited derivation from the catalog: every line has
\* quantity 1, discount 0, no isNew mark and the product's name and price
FreshInvoice(items, prods) ==
    \A k \in 1..Len(items) :
        /\ items[k].quantity = 1
        /\ items[k].discount = 0
        /\ ~items[k].isNew
        /\ \E i \in 1..Len(prods) :
              /\ prods[i].id = items[k].productId
              /\ prods[i].name = items[k].name
              /\ prods[i].price = items[k].price

\* The product ids a derivation for selection sel has to show
ExpectedIds(sel, prods, meds) ==
    IF sel = "all" THEN { prods[i].id : i \in 1..Len(prods) }
    ELSE { meds[i].productId : i \in MedsOf(meds, sel) }
         \cap { prods[i].id : i \in 1..Len(prods) }

\* C7: changing the selected patient leaves the associations unchanged and
\* replaces the working invoice by the fresh derivation for the new
\* selection, so that no edit, added line or star survives.
C7_SelectDiscardsEdits ==
    [][\A id \in {"all"} \cup AllPatientIds :
            SelectPatient(id) =>
                /\ patientMedications' = patientMedications
                /\ FreshInvoice(invoiceItems', products')
                /\ LineIds' = ExpectedIds(id, products', patientMedications')
                /\ Len(invoiceItems') = Cardinality(LineIds')
                /\ newlyAddedDefaults' = <<>>
    ]_vars

\* Unsaved edits are in the working invoice (an edited quantity, a changed
\* discount on an added and starred line) and another patient can be selected
C7_Witness ==
    /\ selectedPatientId \in PatientIds
    /\ PatientIds \ {selectedPatientId} # {}
    /\ \E k \in 1..Len(invoiceItems) :
          ~invoiceItems[k].isNew /\ invoiceItems[k].quantity # 1
    /\ \E k \in 1..Len(invoiceItems) :
          /\ invoiceItems[k].isNew
          /\ invoiceItems[k].discount # 0
          /\ invoiceItems[k].productId \in Range(newlyAddedDefaults)

----------------------------------------------------------------------------
(* C8 *)

\* C8: a save-back while the selection is "all" (or unset) shows an error
\* message and leaves patients, products, associations, the working invoice
\* and the selection as they were.
C8_SaveWithoutPatientRejected ==
    [][(handleSaveInvoice /\ ~ConcretePatient(selectedPatientId)) =>
        /\ statusMessage' = "error"
        /\ UNCHANGED <<patients, products, patientMedications, invoiceItems,
                       selectedPatientId>>
    ]_vars

\* The error of a rejected save is shown over an edited invoice of the
\* full catalog
C8_Witness ==
    /\ statusMessage = "error"
    /\ selectedPatientId = "all"
    /\ \E k \in 1..Len(invoiceItems) : invoiceItems[k].quantity # 1

----------------------------------------------------------------------------
(* C9 *)

\* C9: a save-back for patient P leaves the associations of every other
\* patient as they were, in content and order.
C9_SaveLeavesOtherPatients ==
    [][SaveStep =>
        FilterSeq(patientMedications', LAMBDA pm : pm.patientId # selectedPatientId)
        = FilterSeq(patientMedications, LAMBDA pm : pm.patientId # selectedPatientId)
    ]_vars

\* A save has added an association for one patient after the association
\* of another patient, which is still there
C9_Witness ==
    /\ statusMessage = "success"
    /\ selectedPatientId = "all"
    /\ \E i, j \in 1..Len(patientMedications) :
          /\ i < j
          /\ patientMedications[i].patientId # patientMedications[j].patientId

----------------------------------------------------------------------------
(* C10 *)

\* C10 as stated: an update of a product in the catalog leaves the name and
\* the price of the lines of the open working invoice as they were.
C10_LinesKeepSnapshot ==
    [][(\E id \in AllProductIds, in \in ProductEdits :
            handleProductSave(id, in.name, in.price)) =>
        \A k \in 1..Len(invoiceItems), l \in 1..Len(invoiceItems') :
            invoiceItems'[l].productId = invoiceItems[k].productId =>
                /\ invoiceItems'[l].name = invoiceItems[k].name
                /\ invoiceItems'[l].price = invoiceItems[k].price
    ]_vars

\* C10 amended: the name and price of a line are copied from the product when
\* the line is derived or added and follow every later update of the product:
\* in every state each line carries the name and the price its product has in
\* the catalog.
C10_LinesFollowCatalog ==
    \A k \in 1..Len(invoiceItems) :
        \E i \in 1..Len(products) :
            /\ products[i].id = invoiceItems[k].productId
            /\ products[i].name = invoiceItems[k].name
            /\ products[i].price = invoiceItems[k].price

\* A product has been updated (only an edit gives the price 50) and a line of
\* the invoice of the selected patient carries the updated name and price
\* next to a line the user has added
C10_Witness ==
    /\ ConcretePatient(selectedPatientId)
    /\ \E k, l \in 1..Len(invoiceItems) :
          /\ invoiceItems[k].price = 50
          /\ invoiceItems[k].name = <<"b">>
          /\ invoiceItems[l].isNew

----------------------------------------------------------------------------
(* C11 *)

\* A step in which the derivation ran with "all" selected
DerivedForAll ==
    /\ selectedPatientId' = "all"
    /\ \/ selectedPatientId' # selectedPatientId
       \/ products' # products
       \/ patientMedications' # patientMedications

RECURSIVE SumPrices(_)
SumPrices(prods) ==
    IF prods = <<>> THEN 0 ELSE Head(prods).price + SumPrices(Tail(prods))

\* C11: a derivation with "all" selected yields exactly one line per product,
\* in the order of the catalog, each with quantity 1, discount 0 and the
\* product's current name and price, so that subtotal and grandTotal are the
\* sum of the prices and the discount total is 0.
C11_DeriveAllListsCatalog ==
    [][DerivedForAll =>
        /\ Len(invoiceItems') = Len(products')
        /\ \A k \in 1..Len(products') :
              /\ invoiceItems'[k].productId = products'[k].id
              /\ invoiceItems'[k].name = products'[k].name
              /\ invoiceItems'[k].price = products'[k].price
              /\ invoiceItems'[k].quantity = 1
              /\ invoiceItems'[k].discount = 0
        /\ totals'.subtotal = 100 * SumPrices(products')
        /\ totals'.grandTotal = 100 * SumPrices(products')
        /\ totals'.discount = 0
    ]_vars

\* The patient of the store has been deleted, which ran the derivation with
\* "all" selected over the products priced 10 and 20: the totals are 30.00,
\* 0.00 and 30.00
C11_Witness ==
    /\ selectedPatientId = "all"
    /\ patients = <<>>
    /\ nextPatient = 1
    /\ Len(products) = 2
    /\ products[1].price = 10
    /\ products[2].price = 20
    /\ Len(invoiceItems) = 2
    /\ totals = [subtotal |-> 3000, discount |-> 0, grandTotal |-> 3000]

----------------------------------------------------------------------------
(* C12 *)

\* The association references a product id that is not in the catalog
Dangling(pm, prods) == \A i \in 1..Len(prods) : prods[i].id # pm.productId

\* C12: a derivation for a concrete patient produces no line for an
\* association whose productId is not in the catalog: such associations are
\* left out, the other associations of the patient get their line, and every
\* derived line carries the id, name and price of an existing product.
C12_DanglingOmitted ==
    [][DerivedForPatient =>
        /\ \A k \in 1..Len(invoiceItems') :
              \E i \in 1..Len(products') :
                  invoiceItems'[k] = NewLine(products'[i], FALSE)
        /\ \A i \in MedsOf(patientMedications', selectedPatientId') :
              IF Dangling(patientMedications'[i], products')
              THEN patientMedications'[i].productId \notin LineIds'
              ELSE patientMedications'[i].productId \in LineIds'
    ]_vars

\* The selected patient has an association with a product id that is not in
\* the catalog and one with a product that is; the derived invoice is the
\* line of the second
C12_Witness ==
    /\ ConcretePatient(selectedPatientId)
    /\ \E i, j \in MedsOf(patientMedications, selectedPatientId) :
          /\ Dangling(patientMedications[i], products)
          /\ ~Dangling(patientMedications[j], products)
          /\ Len(invoiceItems) = 1
          /\ invoiceItems[1].productId = patientMedications[j].productId
          /\ ~invoiceItems[1].isNew

----------------------------------------------------------------------------
(* C13 *)

\* C13: the quantity of every line of the working invoice is a non-negative
\* integer: no quantity edit, whatever its input text, stores a negative
\* number.
C13_QuantityNonNegative ==
    \A k \in 1..Len(invoiceItems) :
        invoiceItems[k].quantity \in Nat

----------------------------------------------------------------------------
(* C14 *)

\* The discount the claim gives for an input text
ClampedDiscount(input) ==
    IF ~input.isNum THEN 0
    ELSE IF input.val < 0 THEN 0
    ELSE IF input.val > 100 THEN 100
    ELSE input.val

\* The invoice that handleDiscountChange(i, input) sets in the current state
AfterDiscountChange(i, input) ==
    UpdatedItems(invoiceItems, [invoiceItems[i] EXCEPT !.discount = ParseDiscount(input)])

\* C14: in every reachable state the discount of every line is between 0 and
\* 100, and a discount edit of any line stores 0 for an input below 0 or an
\* unparseable input and 100 for an input above 100.
C14_DiscountClamped ==
    /\ \A k \in 1..Len(invoiceItems) :
          invoiceItems[k].discount \in 0..100
    /\ \A i \in 1..Len(invoiceItems), input \in DiscountInputs :
          AfterDiscountChange(i, input)[i].discount = ClampedDiscount(input)

\* An input above 100 has been stored as 100 in one line while another line
\* of the invoice keeps the discount 0
C14_Witness ==
    \E k, l \in 1..Len(invoiceItems) :
        /\ invoiceItems[k].discount = 100
        /\ invoiceItems[l].discount = 0

----------------------------------------------------------------------------
(* C16 *)

\* Reference totals of a list of lines, in hundredths: the sum of
\* price * quantity and the sum of price * quantity * (1 - discount / 100)
ReferenceSubtotal100(items) ==
    LET S[n \in 0..Len(items)] ==
            IF n = 0 THEN 0 ELSE S[n - 1] + 100 * items[n].price * items[n].quantity
    IN  S[Len(items)]

ReferenceGrandTotal100(items) ==
    LET S[n \in 0..Len(items)] ==
            IF n = 0 THEN 0
            ELSE S[n - 1] + items[n].price * items[n].quantity * (100 - items[n].discount)
    IN  S[Len(items)]

\* C16: in every reachable state, so after every mutation of the working
\* invoice, the totals shown and the totals an export hands over are the
\* reference totals of the current lines, and the export hands over the
\* current lines.
C16_TotalsCurrent ==
    /\ totals.subtotal = ReferenceSubtotal100(invoiceItems)
    /\ totals.grandTotal = ReferenceGrandTotal100(invoiceItems)
    /\ ExportArguments.items = invoiceItems
    /\ ExportArguments.totals.subtotal = ReferenceSubtotal100(invoiceItems)
    /\ ExportArguments.totals.grandTotal = ReferenceGrandTotal100(invoiceItems)

\* A line has been added and a discount edited: the totals show a discount
\* and a remaining amount
C16_Witness ==
    /\ \E k \in 1..Len(invoiceItems) : invoiceItems[k].isNew
    /\ \E k \in 1..Len(invoiceItems) : invoiceItems[k].discount = 100
    /\ totals.discount > 0
    /\ totals.grandTotal > 0

----------------------------------------------------------------------------
(* C17 *)

\* C17: the association list never holds two associations with the same
\* patientId and the same productId.
C17_UniqueAssociations ==
    \A i, j \in 1..Len(patientMedications) :
        i # j => \/ patientMedications[i].patientId # patientMedications[j].patientId
                 \/ patientMedications[i].productId # patientMedications[j].productId

----------------------------------------------------------------------------
(* C18 *)

\* C18: the association list changes only in a save-back and in a confirmed
\* deletion of a patient or of a product; every other step (selecting,
\* adding, removing or editing a line, starring, adding or renaming a patient
\* or a product, exporting) leaves it as it was.
C18_AssociationsFrame ==
    [][patientMedications' # patientMedications =>
        \/ SaveStep
        \/ \E id \in AllPatientIds : handleDeletePatient(id, TRUE)
        \/ \E id \in AllProductIds : handleDeleteProduct(id, TRUE)
    ]_vars

\* The selected patient keeps the association with a product whose line has
\* been removed from the invoice, and another line has been added and starred
C18_Witness ==
    /\ ConcretePatient(selectedPatientId)
    /\ newlyAddedDefaults # <<>>
    /\ \E i \in MedsOf(patientMedications, selectedPatientId) :
          /\ patientMedications[i].productId \in ProductIds
          /\ patientMedications[i].productId \notin LineIds

----------------------------------------------------------------------------
(* C19 *)

\* Product ids a caller can pass: the ids the model issues and one that is
\* never the id of a line
CallerProductIds == AllProductIds \cup { ProductIdOf(0) }

\* Items a caller can pass to handleUpdateItem
CallerItems ==
    { [productId |-> id, name |-> <<"a">>, price |-> 10, quantity |-> 2,
       discount |-> 50, isNew |-> FALSE] : id \in CallerProductIds }

\* C19: in every reachable state, updating with an item keeps the number and
\* the order of the lines, puts the item in the place of every line with the
\* item's productId and leaves every line with another productId as it was;
\* when no line has that productId the invoice is unchanged.
C19_UpdateReplacesMatching ==
    \A updatedItem \in CallerItems :
        LET after == UpdatedItems(invoiceItems, updatedItem)
        IN  /\ Len(after) = Len(invoiceItems)
            /\ \A k \in 1..Len(invoiceItems) :
                  after[k] = IF invoiceItems[k].productId = updatedItem.productId
                             THEN updatedItem
                             ELSE invoiceItems[k]
            /\ updatedItem.productId \notin LineIds => after = invoiceItems

\* An edit has replaced one line of the invoice (its discount is 100) and
\* the line before it, of another product, still has quantity 1, discount 0
C19_Witness ==
    \E k \in 2..Len(invoiceItems) :
        /\ invoiceItems[k].discount = 100
        /\ invoiceItems[k - 1].productId # invoiceItems[k].productId
        /\ invoiceItems[k - 1].quantity = 1
        /\ invoiceItems[k - 1].discount = 0

----------------------------------------------------------------------------
(* C20 *)

\* Positions of the lines of items with a productId other than id
OtherLines(items, id) == { k \in 1..Len(items) : items[k].productId # id }

\* C20: in every reachable state, removing a productId gives the invoice
\* without any line for it, with every other line unchanged and in the same
\* order; it changes nothing when no line has that productId, so removing
\* twice gives what removing once gives.
C20_RemoveDropsMatching ==
    \A id \in CallerProductIds :
        LET after == RemainingItems(invoiceItems, id)
            others == OtherLines(invoiceItems, id)
        IN  /\ \A n \in 1..Len(after) : after[n].productId # id
            /\ Len(after) = Cardinality(others)
            /\ \A k \in others :
                  after[Cardinality({ j \in others : j <= k })] = invoiceItems[k]
            /\ id \notin LineIds => after = invoiceItems
            /\ RemainingItems(after, id) = after

\* With "all" selected a product of the catalog has no line, so its line has
\* been removed, and the line that remains keeps its edited quantity
C20_Witness ==
    /\ selectedPatientId = "all"
    /\ \E id \in ProductIds : id \notin LineIds
    /\ \E k \in 1..Len(invoiceItems) : invoiceItems[k].quantity # 1

----------------------------------------------------------------------------
(* C24 *)

\* C24: over the lifetime of the process the font is fetched successfully at
\* most once, also when two exports are started before the first fetch has
\* completed.
C24_FontFetchedOnce ==
    fontFetches <= 1

----------------------------------------------------------------------------
(* C25 *)

\* C25: a step of an export leaves patients, products, associations, the
\* working invoice and the selection unchanged; an export that has failed,
\* at the fetch or while rendering, has shown exactly one alert and saved no
\* file, and an export that has not failed has shown no alert.
C25_ExportFailsOnceNoFile ==
    [][exports' # exports =>
        /\ UNCHANGED <<patients, products, patientMedications, invoiceItems,
                       selectedPatientId>>
        /\ \A e \in 1..Len(exports') :
              IF exports'[e].pc = "failed"
              THEN exports'[e].alerts = 1 /\ exports'[e].files = 0
              ELSE exports'[e].alerts = 0
    ]_vars

\* One export has failed at its fetch (no font was ever fetched) and another
\* is still waiting for its own fetch, over an invoice with an edited line
C25_Witness ==
    /\ fontFetches = 0
    /\ \E e, f \in 1..Len(exports) :
          /\ exports[e].pc = "failed"
          /\ exports[f].pc = "fetching"
    /\ \E k \in 1..Len(invoiceItems) : invoiceItems[k].discount = 100

----------------------------------------------------------------------------
(* C21 *)

\* A name is stored trimmed and is not empty
ValidName(name) == name # <<>> /\ Trim(name) = name

\* Every product has a valid name and a price that is not negative, every
\* patient has a valid name
ValidCatalog(pats, prods) ==
    /\ \A i \in 1..Len(prods) : ValidName(prods[i].name) /\ prods[i].price >= 0
    /\ \A i \in 1..Len(pats) : ValidName(pats[i].name)

\* C21: in every reachable state every product has a price >= 0 and every
\* patient and product has a non-empty trimmed name: no add or update with a
\* name that is empty after trimming, or with a price that is not a number
\* or is negative, has changed the catalog.
C21_CatalogStaysValid ==
    ValidCatalog(patients, products)

\* Two patients and two products are in the catalog, one product as the add
\* form gave it and one as the edit form gave it
C21_Witness ==
    /\ Len(patients) = 2
    /\ Len(products) = 2
    /\ \E i \in 1..Len(products) : products[i].price = 50
    /\ \E i \in 1..Len(products) : products[i].price = 10

----------------------------------------------------------------------------
(* C22 *)

\* C22: the list of patients or of products gets shorter only in a delete
\* that the caller has confirmed, and no step that changes patients,
\* products, associations, the working invoice or the selection is a delete
\* whose confirmation was declined.
C22_DeleteNeedsConfirmation ==
    [][/\ Len(patients') < Len(patients) =>
              \E id \in AllPatientIds : handleDeletePatient(id, TRUE)
       /\ Len(products') < Len(products) =>
              \E id \in AllProductIds : handleDeleteProduct(id, TRUE)
       /\ (\/ patients' # patients
           \/ products' # products
           \/ patientMedications' # patientMedications
           \/ invoiceItems' # invoiceItems
           \/ selectedPatientId' # selectedPatientId) =>
              /\ \A id \in AllPatientIds : ~handleDeletePatient(id, FALSE)
              /\ \A id \in AllProductIds : ~handleDeleteProduct(id, FALSE)
    ]_vars

\* A patient with an association is selected and the invoice holds an edited
\* line: a delete of the patient or of the product can be declined here
C22_Witness ==
    /\ selectedPatientId \in PatientIds
    /\ MedsOf(patientMedications, selectedPatientId) # {}
    /\ \E k \in 1..Len(invoiceItems) :
          /\ invoiceItems[k].productId \in ProductIds
          /\ invoiceItems[k].discount = 100
    /\ statusMessage = "success"

----------------------------------------------------------------------------
(* C23 *)

\* The collection a load has to give for the state of its key
LoadedAs(keyState, collection) == IF keyState = "written" THEN collection ELSE <<>>

\* C23: a reload of the page always yields its three collections: a
\* collection whose key is missing or holds a text that is not JSON starts
\* as the empty list, and a collection whose key holds what the application
\* last wrote is the collection as it was when it was written.
C23_LoadFallsBackOrRestores ==
    [][statusMessage' = NoMessage =>
        \A keys \in [patients : KeyStates, products : KeyStates, meds : KeyStates] :
            Reload(keys) =>
                /\ patients' = LoadedAs(keys.patients, patients)
                /\ products' = LoadedAs(keys.products, products)
                /\ patientMedications' = LoadedAs(keys.meds, patientMedications)
    ]_vars

\* After a reload the products and the associations are as they were written
\* and the patients, whose key was missing or unreadable, are the empty list
C23_Witness ==
    /\ statusMessage = NoMessage
    /\ patients = <<>>
    /\ nextPatient > 0
    /\ products # <<>>
    /\ patientMedications # <<>>

----------------------------------------------------------------------------
(* C26 *)

\* C26: for the catalog and the associations of every reachable state, the
\* derivation with an unset selection ("") gives the empty invoice.
C26_UnsetSelectionDerivesEmpty ==
    Derive("", products, patientMedications) = <<>>

\* The catalog and the associations are such that the derivation gives lines
\* both for "all" and for the selected patient
C26_Witness ==
    /\ selectedPatientId \in PatientIds
    /\ Derive("all", products, patientMedications) # <<>>
    /\ Derive(selectedPatientId, products, patientMedications) # <<>>
    /\ Len(patientMedications) = 2

----------------------------------------------------------------------------
(* C27 *)

\* C27: every step that changes the product list or the association list
\* ends with the invoice being the fresh derivation for the selection of
\* the new state (one unedited line per expected product, none marked new)
\* and with an empty starred set.
C27_CatalogChangeRederives ==
    [][(products' # products \/ patientMedications' # patientMedications) =>
            /\ FreshInvoice(invoiceItems', products')
            /\ { invoiceItems'[k].productId : k \in 1..Len(invoiceItems') }
                    = ExpectedIds(selectedPatientId', products', patientMedications')
            /\ Len(invoiceItems')
                    = Cardinality(ExpectedIds(selectedPatientId', products', patientMedications'))
            /\ newlyAddedDefaults' = <<>>]_vars

\* A patient with an association is selected, a derived line is edited and
\* an added line is starred: the state a change of the catalog overwrites
C27_Witness ==
    /\ selectedPatientId \in PatientIds
    /\ MedsOf(patientMedications, selectedPatientId) # {}
    /\ Len(products) = 2
    /\ \E k \in 1..Len(invoiceItems) :
          ~invoiceItems[k].isNew /\ invoiceItems[k].quantity = 0
    /\ \E k \in 1..Len(invoiceItems) :
          /\ invoiceItems[k].isNew
          /\ invoiceItems[k].productId \in Range(newlyAddedDefaults)

----------------------------------------------------------------------------
(* C28 *)

\* C28: a save-back with a concrete patient selected, with or without
\* starred lines, ends with the selection "all" and with the invoice holding
\* one line per product of the catalog, in the catalog's order, each with
\* quantity 1 and discount 0; when no line is starred the associations are
\* unchanged.
C28_SaveReturnsToAll ==
    [][SaveStep =>
            /\ selectedPatientId' = "all"
            /\ Len(invoiceItems') = Len(products')
            /\ \A k \in 1..Len(invoiceItems') :
                  /\ invoiceItems'[k].productId = products'[k].id
                  /\ invoiceItems'[k].quantity = 1
                  /\ invoiceItems'[k].discount = 0
            /\ (newlyAddedDefaults = <<>> =>
                    patientMedications' = patientMedications)]_vars

\* After save-backs with a starred line: the selection is "all", the two
\* products of the catalog are listed and both patients have an association
C28_Witness ==
    /\ selectedPatientId = "all"
    /\ statusMessage = "success"
    /\ Len(products) = 2
    /\ Len(invoiceItems) = 2
    /\ newlyAddedDefaults = <<>>
    /\ \A p \in PatientIds : MedsOf(patientMedications, p) # {}
    /\ Len(patients) = 2

----------------------------------------------------------------------------
(* C29 *)

\* C29: starting from the empty store, every association names an existing
\* patient and an existing product, the selection is "all" or the id of an
\* existing patient, and every starred id is the product id of a line of the
\* invoice.
C29_ReferentialIntegrity ==
    /\ \A i \in 1..Len(patientMedications) :
          /\ patientMedications[i].patientId \in PatientIds
          /\ patientMedications[i].productId \in ProductIds
    /\ selectedPatientId \in {"all"} \cup PatientIds
    /\ Range(newlyAddedDefaults) \subseteq LineIds

\* A patient has been deleted, and the remaining patient,
\* which is selected, keeps an association and has a starred line
C29_Witness ==
    /\ nextPatient = 2 /\ Len(patients) = 1
    /\ selectedPatientId \in PatientIds
    /\ MedsOf(patientMedications, selectedPatientId) # {}
    /\ newlyAddedDefaults # <<>>

----------------------------------------------------------------------------
(* C30 *)

\* C30: a message is cleared only by its own timer: whenever a shown message
\* is replaced by none, the timer that fired is the one started for the
\* message shown last.
C30_ClearedByOwnTimer ==
    [][(statusMessage # NoMessage /\ statusMessage' = NoMessage) =>
            (timers # <<>> /\ Head(timers) = shown)]_vars

\* A second message is shown while the timer of the first is pending
C30_Witness ==
    /\ statusMessage # NoMessage
    /\ Len(timers) >= 2
    /\ Head(timers) < shown

====
